---- MODULE Spec2Model ----
(***************************************************************************)
(* Model of the Q5 emergency-network engine: the command hierarchy tree    *)
(* (tree/tree_model.py, tree/rebalance.py) and the road graph with its     *)
(* algorithms (graph/graph_model.py, graph/mst.py, graph/paths.py,         *)
(* graph/failure.py).                                                      *)
(*                                                                         *)
(* A tree node is the tuple <<value, left, right, height>>, the empty      *)
(* subtree (None) is <<>>.  A tree object is [kind, root, size]; kind is   *)
(* the Python class of the object and selects the insert/delete override.  *)
(***************************************************************************)
EXTENDS Integers, Sequences, FiniteSets, TLC

VARIABLES tree, graph, vulnerable_edges, disabled_nodes, ret

vars == <<tree, graph, vulnerable_edges, disabled_nodes, ret>>
treeVars == <<tree>>
graphVars == <<graph, vulnerable_edges, disabled_nodes>>

\* ------------------------------------------------------------------ bounds
\* keys offered to insert/delete are 1..MaxKey
MaxKey == 6
\* BinarySearchTree.size grows on every insert call (duplicates too): cap it
MaxSize == 8
\* city ids are 0..MaxNode; a road is light (weight 1) or heavy (MaxWeight)
MaxNode == 2
MaxWeight == 3
\* roads kept in the graph at a time, and road marks kept in vulnerable_edges
MaxRoads == 3
MaxVulnerable == 1
\* cities disabled at a time
MaxDisabled == 1
\* the k offered to find_k_disjoint_paths is 1..MaxK
MaxK == 3
\* add_city / add_road calls that build a network before it is queried
MaxCalls == 2

Keys == 1..MaxKey

Max(a, b) == IF a >= b THEN a ELSE b
Abs(a) == IF a >= 0 THEN a ELSE 0 - a

\* ------------------------------------------------------------- TreeNode
Nil == <<>>
TreeNode(value, height) == <<value, Nil, Nil, height>>
Value(n) == n[1]
Left(n) == n[2]
Right(n) == n[3]
Height(n) == n[4]
SetLeft(n, l) == <<n[1], l, n[3], n[4]>>
SetRight(n, r) == <<n[1], n[2], r, n[4]>>
SetHeight(n, h) == <<n[1], n[2], n[3], h>>

\* ----------------------------------------------------- BinarySearchTree
RECURSIVE insert_recursive(_, _)
insert_recursive(node, value) ==
    IF node = Nil THEN TreeNode(value, 1)
    ELSE IF value < Value(node)
         THEN SetLeft(node, insert_recursive(Left(node), value))
    ELSE IF value > Value(node)
         THEN SetRight(node, insert_recursive(Right(node), value))
    ELSE node

\* the loop "while successor.left is not None" started at node.right:
\* the value of the in-order successor
RECURSIVE successor_value(_)
successor_value(n) ==
    IF Left(n) = Nil THEN Value(n) ELSE successor_value(Left(n))

\* the right subtree after "node.right = successor.right" or
\* "successor_parent.left = successor.right": no height on the way down to
\* the successor is touched
RECURSIVE unlink_successor(_)
unlink_successor(n) ==
    IF Left(n) = Nil THEN Right(n)
    ELSE SetLeft(n, unlink_successor(Left(n)))

\* _delete_recursive that copies the successor's value and leaves the
\* successor in the right subtree
RECURSIVE delete_recursive_keep_successor(_, _, _)
delete_recursive_keep_successor(node, value, size) ==
    IF node = Nil THEN <<Nil, size>>
    ELSE IF value < Value(node)
         THEN LET r == delete_recursive_keep_successor(Left(node), value, size)
              IN  <<SetLeft(node, r[1]), r[2]>>
    ELSE IF value > Value(node)
         THEN LET r == delete_recursive_keep_successor(Right(node), value, size)
              IN  <<SetRight(node, r[1]), r[2]>>
    ELSE IF Left(node) = Nil /\ Right(node) = Nil THEN <<Nil, size - 1>>
    ELSE IF Left(node) = Nil THEN <<Right(node), size - 1>>
    ELSE IF Right(node) = Nil THEN <<Left(node), size - 1>>
    ELSE <<<<successor_value(Right(node)), Left(node), Right(node),
             Height(node)>>, size - 1>>

\* returns <<subtree, size>>: self.size is decremented where the value is found
RECURSIVE delete_recursive(_, _, _)
delete_recursive(node, value, size) ==
    IF node = Nil THEN <<Nil, size>>
    ELSE IF value < Value(node)
         THEN LET r == delete_recursive(Left(node), value, size)
              IN  <<SetLeft(node, r[1]), r[2]>>
    ELSE IF value > Value(node)
         THEN LET r == delete_recursive(Right(node), value, size)
              IN  <<SetRight(node, r[1]), r[2]>>
    ELSE IF Left(node) = Nil /\ Right(node) = Nil THEN <<Nil, size - 1>>
    ELSE IF Left(node) = Nil THEN <<Right(node), size - 1>>
    ELSE IF Right(node) = Nil THEN <<Left(node), size - 1>>
    ELSE <<<<successor_value(Right(node)), Left(node),
             unlink_successor(Right(node)), Height(node)>>, size - 1>>

RECURSIVE inorder_recursive(_)
inorder_recursive(node) ==
    IF node = Nil THEN <<>>
    ELSE inorder_recursive(Left(node)) \o <<Value(node)>>
         \o inorder_recursive(Right(node))

inorder_traversal(t) == inorder_recursive(t.root)

RECURSIVE get_height_recursive(_)
get_height_recursive(node) ==
    IF node = Nil THEN 0
    ELSE 1 + Max(get_height_recursive(Left(node)),
                 get_height_recursive(Right(node)))

get_height(t) == get_height_recursive(t.root)

\* check_balance: <<balanced, height>>
RECURSIVE check_balance(_)
check_balance(node) ==
    IF node = Nil THEN <<TRUE, 0>>
    ELSE LET l == check_balance(Left(node))
         IN  IF ~l[1] THEN <<FALSE, 0>>
             ELSE LET r == check_balance(Right(node))
                  IN  IF ~r[1] THEN <<FALSE, 0>>
                      ELSE <<Abs(l[2] - r[2]) <= 1, 1 + Max(l[2], r[2])>>

is_balanced(t) == check_balance(t.root)[1]

\* -------------------------------------------------------------- AVLTree
\* _get_height: the cached height field
node_height(node) == IF node = Nil THEN 0 ELSE Height(node)

get_balance_factor(node) ==
    IF node = Nil THEN 0
    ELSE node_height(Left(node)) - node_height(Right(node))

update_height(node) ==
    SetHeight(node, 1 + Max(node_height(Left(node)), node_height(Right(node))))

rotate_right(y) ==
    LET x  == Left(y)
        B  == Right(x)
        y1 == update_height(SetLeft(y, B))
    IN  update_height(SetRight(x, y1))

\* rotate_left with the slip "x.right = y.right": x keeps the wrong grandchild
rotate_left_wrong_child(x) ==
    LET y  == Right(x)
        B  == Right(y)
        x1 == update_height(SetRight(x, B))
    IN  update_height(SetLeft(y, x1))

rotate_left(x) ==
    LET y  == Right(x)
        B  == Left(y)
        x1 == update_height(SetRight(x, B))
    IN  update_height(SetLeft(y, x1))

rebalance(node) ==
    LET balance == get_balance_factor(node)
    IN  IF balance > 1
        THEN IF get_balance_factor(Left(node)) < 0
             THEN rotate_right(SetLeft(node, rotate_left(Left(node))))
             ELSE rotate_right(node)
        ELSE IF balance < 0 - 1
        THEN IF get_balance_factor(Right(node)) > 0
             THEN rotate_left(SetRight(node, rotate_right(Right(node))))
             ELSE rotate_left(node)
        ELSE node

\* returns <<subtree, size>>: self.size is incremented where the leaf is made
RECURSIVE insert_avl_recursive(_, _, _)
insert_avl_recursive(node, value, size) ==
    IF node = Nil THEN <<TreeNode(value, 1), size + 1>>
    ELSE IF value < Value(node)
         THEN LET r == insert_avl_recursive(Left(node), value, size)
              IN  <<rebalance(update_height(SetLeft(node, r[1]))), r[2]>>
    ELSE IF value > Value(node)
         THEN LET r == insert_avl_recursive(Right(node), value, size)
              IN  <<rebalance(update_height(SetRight(node, r[1]))), r[2]>>
    ELSE <<node, size>>

RECURSIVE delete_avl_recursive(_, _, _)
delete_avl_recursive(node, value, size) ==
    IF node = Nil THEN <<Nil, size>>
    ELSE IF value < Value(node)
         THEN LET r == delete_avl_recursive(Left(node), value, size)
              IN  <<rebalance(update_height(SetLeft(node, r[1]))), r[2]>>
    ELSE IF value > Value(node)
         THEN LET r == delete_avl_recursive(Right(node), value, size)
              IN  <<rebalance(update_height(SetRight(node, r[1]))), r[2]>>
    ELSE IF Left(node) = Nil /\ Right(node) = Nil THEN <<Nil, size - 1>>
    ELSE IF Left(node) = Nil THEN <<Right(node), size - 1>>
    ELSE IF Right(node) = Nil THEN <<Left(node), size - 1>>
    ELSE <<rebalance(update_height(
               <<successor_value(Right(node)), Left(node),
                 unlink_successor(Right(node)), Height(node)>>)), size - 1>>

\* ------------------------------------------- insert / delete of an object
\* each returns <<tree object after the call, return value>>
bst_insert(t, value) ==
    IF t.root = Nil
    THEN <<[t EXCEPT !.root = TreeNode(value, 1), !.size = 1], TRUE>>
    ELSE <<[t EXCEPT !.root = insert_recursive(t.root, value),
                     !.size = t.size + 1], TRUE>>

bst_delete(t, value) ==
    IF t.root = Nil THEN <<t, FALSE>>
    ELSE LET r == delete_recursive(t.root, value, t.size)
         IN  <<[t EXCEPT !.root = r[1], !.size = r[2]], r[2] < t.size>>

avl_insert(t, value) ==
    IF t.root = Nil
    THEN <<[t EXCEPT !.root = TreeNode(value, 1), !.size = 1], TRUE>>
    ELSE LET r == insert_avl_recursive(t.root, value, t.size)
         IN  <<[t EXCEPT !.root = r[1], !.size = r[2]], r[2] > t.size>>

avl_delete(t, value) ==
    IF t.root = Nil THEN <<t, FALSE>>
    ELSE LET r == delete_avl_recursive(t.root, value, t.size)
         IN  <<[t EXCEPT !.root = r[1], !.size = r[2]], r[2] < t.size>>

\* method dispatch on the class of the object
insert(t, value) == IF t.kind = "AVL" THEN avl_insert(t, value)
                    ELSE bst_insert(t, value)
delete(t, value) == IF t.kind = "AVL" THEN avl_delete(t, value)
                    ELSE bst_delete(t, value)

\* ------------------------------------------------------- rebalance_tree
NewTree(kind) == [kind |-> kind, root |-> Nil, size |-> 0]

\* sorted_values is a Python list, indexed from 0
RECURSIVE build_balanced_tree(_, _, _, _)
build_balanced_tree(avl_tree, sorted_values, low, high) ==
    IF low <= high
    THEN LET mid == (low + high) \div 2
             t1  == avl_insert(avl_tree, sorted_values[mid + 1])[1]
             t2  == build_balanced_tree(t1, sorted_values, low, mid - 1)
         IN  build_balanced_tree(t2, sorted_values, mid + 1, high)
    ELSE avl_tree

\* rebalance_tree with the slip "len(values) - 2": the largest key is left out
rebalance_tree_short(old_tree) ==
    LET values == inorder_traversal(old_tree)
    IN  IF values = <<>> THEN NewTree("AVL")
        ELSE build_balanced_tree(NewTree("AVL"), values, 0, Len(values) - 2)

rebalance_tree(old_tree) ==
    LET values == inorder_traversal(old_tree)
    IN  IF values = <<>> THEN NewTree("AVL")
        ELSE build_balanced_tree(NewTree("AVL"), values, 0, Len(values) - 1)

\* --------------------------------------------------------- tree actions
NoCall == [op |-> "none"]

EmptyGraph ==
    /\ graph = <<>>
    /\ vulnerable_edges = {}
    /\ disabled_nodes = {}

TreeInit ==
    /\ tree \in {NewTree("BST"), NewTree("AVL")}
    /\ ret = NoCall
    /\ EmptyGraph

Insert(v) ==
    /\ ret = NoCall
    /\ tree.size < MaxSize
    /\ LET r == insert(tree, v)
       IN  /\ tree' = r[1]
           /\ ret' = [op |-> "insert", arg |-> v, val |-> r[2]]
    /\ UNCHANGED graphVars

Delete(v) ==
    /\ ret = NoCall
    /\ LET r == delete(tree, v)
       IN  /\ tree' = r[1]
           /\ ret' = [op |-> "delete", arg |-> v, val |-> r[2]]
    /\ UNCHANGED graphVars

RebalanceTree ==
    /\ ret = NoCall
    /\ ret' = [op |-> "rebalance_tree", val |-> rebalance_tree(tree)]
    /\ UNCHANGED <<tree, graphVars>>

\* the caller takes the returned value; the next call can start
Return ==
    /\ ret /= NoCall
    /\ ret' = NoCall
    /\ UNCHANGED <<tree, graphVars>>

TreeNext ==
    \/ \E v \in Keys : Insert(v)
    \/ \E v \in Keys : Delete(v)
    \/ RebalanceTree
    \/ Return

SpecTree == TreeInit /\ [][TreeNext]_vars

\* an AVLTree filled by twenty-one insert calls, then emptied key by key
DeepInserts ==
    <<14, 16, 6, 17, 21, 3, 2, 4, 13, 7, 15, 18, 20, 12, 8, 9, 5, 1, 10, 19, 11>>
DeepDeletes == {2, 6, 14, 15, 17, 18}

RECURSIVE insert_all(_, _, _)
insert_all(t, values, i) ==
    IF i > Len(values) THEN t
    ELSE insert_all(insert(t, values[i])[1], values, i + 1)

DeepInit ==
    /\ tree = insert_all(NewTree("AVL"), DeepInserts, 1)
    /\ ret = NoCall
    /\ EmptyGraph

DeepNext ==
    \/ \E v \in DeepDeletes : Delete(v)
    \/ Return

SpecTreeDeep == DeepInit /\ [][DeepNext]_vars

\* ======================================================== EmergencyGraph
\* graph is the dict {city: [(neighbor, weight), ...]} in insertion order:
\* a sequence of <<city, adjacency list>>; an adjacency list is a sequence
\* of <<neighbor, weight>>.
Cities(g) == {g[i][1] : i \in 1..Len(g)}
get_all_cities(g) == [i \in 1..Len(g) |-> g[i][1]]
Index(g, city) == CHOOSE i \in 1..Len(g) : g[i][1] = city
Adj(g, city) == g[Index(g, city)][2]
GraphGet(g, city) == IF city \in Cities(g) THEN Adj(g, city) ELSE <<>>
SetAdj(g, city, list) == [g EXCEPT ![Index(g, city)] = <<city, list>>]

add_city(g, city) ==
    IF city \notin Cities(g) THEN Append(g, <<city, <<>>>>) ELSE g

\* remove_city that deletes the city and leaves its neighbours' lists alone
remove_city_keep_roads(g, dis, city) ==
    LET NotCity(e) == e[1] /= city
    IN  <<SelectSeq(g, NotCity), dis \ {city}>>

\* <<graph, disabled_nodes>> after remove_city
remove_city(g, dis, city) ==
    IF city \in Cities(g)
    THEN LET nbrs == {Adj(g, city)[i][1] : i \in 1..Len(Adj(g, city))}
             NotCity(e) == e[1] /= city
             g1 == [i \in 1..Len(g) |->
                      IF g[i][1] \in nbrs
                      THEN <<g[i][1], SelectSeq(g[i][2], NotCity)>>
                      ELSE g[i]]
         IN  <<SelectSeq(g1, NotCity), dis \ {city}>>
    ELSE <<g, dis>>

disable_city(g, dis, city) == IF city \in Cities(g) THEN dis \cup {city} ELSE dis

\* enable_city that leaves disabled_nodes as it is
enable_city_keep(dis, city) == dis

enable_city(dis, city) == dis \ {city}

add_road(g, city1, city2, weight) ==
    LET g1 == add_city(add_city(g, city1), city2)
        g2 == SetAdj(g1, city1, Append(Adj(g1, city1), <<city2, weight>>))
    IN  SetAdj(g2, city2, Append(Adj(g2, city2), <<city1, weight>>))

\* <<graph, vulnerable_edges>> after remove_road
remove_road(g, vul, city1, city2) ==
    IF city1 \in Cities(g) /\ city2 \in Cities(g)
    THEN LET Not2(e) == e[1] /= city2
             Not1(e) == e[1] /= city1
             g1 == SetAdj(g, city1, SelectSeq(Adj(g, city1), Not2))
             g2 == SetAdj(g1, city2, SelectSeq(Adj(g1, city2), Not1))
         IN  <<g2, vul \ {<<city1, city2>>, <<city2, city1>>}>>
    ELSE <<g, vul>>

mark_vulnerable_road(g, vul, city1, city2) ==
    IF city1 \in Cities(g) /\ city2 \in Cities(g)
    THEN vul \cup {<<city1, city2>>, <<city2, city1>>}
    ELSE vul

is_road_vulnerable(vul, city1, city2) ==
    <<city1, city2>> \in vul \/ <<city2, city1>> \in vul

\* the arcs (city, neighbor, weight) in the order the two loops visit them
RECURSIVE ArcsFrom(_, _)
ArcsFrom(g, i) ==
    IF i > Len(g) THEN <<>>
    ELSE [j \in 1..Len(g[i][2]) |-> <<g[i][1], g[i][2][j][1], g[i][2][j][2]>>]
         \o ArcsFrom(g, i + 1)

\* the scan with "if (neighbor, city) not in seen and (city, neighbor) not in
\* seen": one road per pair of cities
RECURSIVE edges_scan_one_per_pair(_, _, _, _)
edges_scan_one_per_pair(arcs, i, edges, seen) ==
    IF i > Len(arcs) THEN edges
    ELSE LET a == arcs[i]
         IN  IF <<a[2], a[1]>> \notin seen /\ <<a[1], a[2]>> \notin seen
             THEN edges_scan_one_per_pair(arcs, i + 1, Append(edges, a),
                                          seen \cup {<<a[1], a[2]>>})
             ELSE edges_scan_one_per_pair(arcs, i + 1, edges, seen)

RECURSIVE edges_scan(_, _, _, _)
edges_scan(arcs, i, edges, seen) ==
    IF i > Len(arcs) THEN edges
    ELSE LET a == arcs[i]
         IN  IF <<a[2], a[1]>> \notin seen
             THEN edges_scan(arcs, i + 1, Append(edges, a),
                             seen \cup {<<a[1], a[2]>>})
             ELSE edges_scan(arcs, i + 1, edges, seen)

get_all_edges(g) == edges_scan(ArcsFrom(g, 1), 1, <<>>, {})

\* get_active_neighbors without the test on vulnerable_edges
get_active_neighbors_all_roads(g, vul, dis, city) ==
    IF city \in dis THEN <<>>
    ELSE LET Active(e) == e[1] \notin dis
         IN  SelectSeq(GraphGet(g, city), Active)

get_active_neighbors(g, vul, dis, city) ==
    IF city \in dis THEN <<>>
    ELSE LET Active(e) == e[1] \notin dis /\ <<city, e[1]>> \notin vul
         IN  SelectSeq(GraphGet(g, city), Active)

\* ============================================================== mst.py
\* find with path compression: <<parent after the call, root>>
RECURSIVE find(_, _)
find(parent, city) ==
    IF parent[city] /= city
    THEN LET r == find(parent, parent[city])
         IN  <<[r[1] EXCEPT ![city] = r[2]], r[2]>>
    ELSE <<parent, city>>

\* union that finds the two roots and links nothing
union_no_link(parent, rank, city1, city2) ==
    LET f1 == find(parent, city1)
        f2 == find(f1[1], city2)
    IN  <<f2[1], rank>>

\* <<parent, rank>> after union
union(parent, rank, city1, city2) ==
    LET f1 == find(parent, city1)
        f2 == find(f1[1], city2)
        p  == f2[1]
        root1 == f1[2]
        root2 == f2[2]
    IN  IF root1 /= root2
        THEN IF rank[root1] < rank[root2]
             THEN <<[p EXCEPT ![root1] = root2], rank>>
             ELSE IF rank[root1] > rank[root2]
             THEN <<[p EXCEPT ![root2] = root1], rank>>
             ELSE <<[p EXCEPT ![root2] = root1],
                    [rank EXCEPT ![root1] = rank[root1] + 1]>>
        ELSE <<p, rank>>

\* edges.sort(key=lambda edge: edge[2]): a stable sort
RECURSIVE insert_by_weight(_, _)
insert_by_weight(sorted, e) ==
    IF sorted = <<>> THEN <<e>>
    ELSE IF sorted[Len(sorted)][3] <= e[3] THEN Append(sorted, e)
    ELSE Append(insert_by_weight(SubSeq(sorted, 1, Len(sorted) - 1), e),
                sorted[Len(sorted)])

RECURSIVE sort_by_weight(_, _, _)
sort_by_weight(edges, i, sorted) ==
    IF i > Len(edges) THEN sorted
    ELSE sort_by_weight(edges, i + 1, insert_by_weight(sorted, edges[i]))

\* the loop over the sorted edges: [mst_edges, total_weight]
RECURSIVE kruskal_loop(_, _, _, _, _, _)
kruskal_loop(edges, i, parent, rank, mst_edges, total_weight) ==
    IF i > Len(edges)
    THEN [mst_edges |-> mst_edges, total_weight |-> total_weight]
    ELSE LET e  == edges[i]
             f1 == find(parent, e[1])
             f2 == find(f1[1], e[2])
         IN  IF f1[2] /= f2[2]
             THEN LET u == union(f2[1], rank, e[1], e[2])
                  IN  kruskal_loop(edges, i + 1, u[1], u[2],
                                   Append(mst_edges, e), total_weight + e[3])
             ELSE kruskal_loop(edges, i + 1, f2[1], rank,
                               mst_edges, total_weight)

\* kruskal_mst without "edges.sort"
kruskal_mst_unsorted(g) ==
    LET parent == [c \in Cities(g) |-> c]
        rank   == [c \in Cities(g) |-> 0]
    IN  kruskal_loop(get_all_edges(g), 1, parent, rank, <<>>, 0)

kruskal_mst(g) ==
    LET parent == [c \in Cities(g) |-> c]
        rank   == [c \in Cities(g) |-> 0]
        edges  == sort_by_weight(get_all_edges(g), 1, <<>>)
    IN  kruskal_loop(edges, 1, parent, rank, <<>>, 0)

\* ============================================================= paths.py
\* float('inf'): distances are positive sums, so -1 is free to stand for it
Inf == -1
\* a < b on distances that may be infinite
Lt(a, b) == a /= Inf /\ (b = Inf \/ a < b)

\* a path is a non-empty sequence of cities; the path None is <<>>
NonePath == <<>>
PathResult(path, distance) ==
    [exc |-> "none", path |-> path, distance |-> distance]
KeyError == [exc |-> "KeyError", path |-> NonePath, distance |-> Inf]

\* position of a city in the iteration order of a set
Pos(ord, c) == CHOOSE i \in 1..Len(ord) : ord[i] = c

\* select_current with the slip "if distances[city] < float('inf')": the last
\* reached city of the iteration, whatever its distance
select_current_last(distances, unvisited, ord) ==
    LET finite == {c \in unvisited : distances[c] /= Inf}
    IN  IF finite = {} THEN <<>>
        ELSE <<CHOOSE c \in finite : \A d \in finite : Pos(ord, c) >= Pos(ord, d)>>

\* "for city in unvisited: if distances[city] < min_dist": the first city, in
\* the set's iteration order, among those of least finite distance; <<>> when
\* current stays None
select_current(distances, unvisited, ord) ==
    LET finite == {c \in unvisited : distances[c] /= Inf}
        least  == {c \in finite : \A d \in finite : distances[c] <= distances[d]}
    IN  IF least = {} THEN <<>>
        ELSE <<CHOOSE c \in least : \A d \in least : Pos(ord, c) <= Pos(ord, d)>>

\* the relaxation loop over get_active_neighbors(current): <<distances, previous>>
RECURSIVE relax(_, _, _, _, _, _)
relax(nbrs, i, current, distances, previous, unvisited) ==
    IF i > Len(nbrs) THEN <<distances, previous>>
    ELSE LET neighbor == nbrs[i][1]
             new_distance == distances[current] + nbrs[i][2]
         IN  IF neighbor \in unvisited /\ Lt(new_distance, distances[neighbor])
             THEN relax(nbrs, i + 1, current,
                        [distances EXCEPT ![neighbor] = new_distance],
                        [previous EXCEPT ![neighbor] = <<current>>], unvisited)
             ELSE relax(nbrs, i + 1, current, distances, previous, unvisited)

\* "while unvisited": <<distances, previous>> when the loop is left
RECURSIVE dijkstra_loop(_, _, _, _, _, _, _, _)
dijkstra_loop(g, vul, dis, end, ord, distances, previous, unvisited) ==
    IF unvisited = {} THEN <<distances, previous>>
    ELSE LET cur == select_current(distances, unvisited, ord)
         IN  IF cur = <<>> THEN <<distances, previous>>
             ELSE IF cur[1] = end THEN <<distances, previous>>
             ELSE LET r == relax(get_active_neighbors(g, vul, dis, cur[1]), 1,
                                 cur[1], distances, previous,
                                 unvisited \ {cur[1]})
                  IN  dijkstra_loop(g, vul, dis, end, ord, r[1], r[2],
                                    unvisited \ {cur[1]})

\* "while current is not None: path.insert(0, current)": the path, or <<>>
\* when previous[current] raises KeyError
RECURSIVE backtrack(_, _, _)
backtrack(previous, current, path) ==
    IF current \notin DOMAIN previous THEN <<>>
    ELSE IF previous[current] = <<>> THEN <<current>> \o path
    ELSE backtrack(previous, previous[current][1], <<current>> \o path)

\* ord is the iteration order of the set unvisited
dijkstra_shortest_path(g, vul, dis, start, end, ord) ==
    LET distances0 == [c \in Cities(g) \cup {start} |->
                          IF c = start THEN 0 ELSE Inf]
        previous0  == [c \in Cities(g) |-> <<>>]
        r == dijkstra_loop(g, vul, dis, end, ord, distances0, previous0,
                           Cities(g))
    IN  IF end \notin DOMAIN r[1] THEN KeyError
        ELSE IF r[1][end] = Inf THEN PathResult(NonePath, Inf)
        ELSE LET path == backtrack(r[2], end, <<>>)
             IN  IF path = <<>> THEN KeyError
                 ELSE PathResult(path, r[1][end])

\* the while loop of bfs_shortest_path; parent maps a visited city to <<>>
\* (None) or <<its parent>>
RECURSIVE bfs_parent_path(_, _, _)
bfs_parent_path(parent, node, path) ==
    IF parent[node] = <<>> THEN <<node>> \o path
    ELSE bfs_parent_path(parent, parent[node][1], <<node>> \o path)

RECURSIVE bfs_visit(_, _, _, _, _)
bfs_visit(nbrs, i, current, queue, parent) ==
    IF i > Len(nbrs) THEN <<queue, parent>>
    ELSE LET neighbor == nbrs[i][1]
         IN  IF neighbor \notin DOMAIN parent
             THEN bfs_visit(nbrs, i + 1, current, Append(queue, neighbor),
                            [c \in DOMAIN parent \cup {neighbor} |->
                               IF c = neighbor THEN <<current>> ELSE parent[c]])
             ELSE bfs_visit(nbrs, i + 1, current, queue, parent)

\* the loop with the slip "return path, len(path)": nodes counted for hops
RECURSIVE bfs_loop_counts_nodes(_, _, _, _, _, _)
bfs_loop_counts_nodes(g, vul, dis, end, queue, parent) ==
    IF queue = <<>> THEN PathResult(NonePath, Inf)
    ELSE LET current == Head(queue)
         IN  IF current = end
             THEN LET path == bfs_parent_path(parent, end, <<>>)
                  IN  PathResult(path, Len(path))
             ELSE LET r == bfs_visit(get_active_neighbors(g, vul, dis, current),
                                     1, current, Tail(queue), parent)
                  IN  bfs_loop_counts_nodes(g, vul, dis, end, r[1], r[2])

RECURSIVE bfs_loop(_, _, _, _, _, _)
bfs_loop(g, vul, dis, end, queue, parent) ==
    IF queue = <<>> THEN PathResult(NonePath, Inf)
    ELSE LET current == Head(queue)
         IN  IF current = end
             THEN LET path == bfs_parent_path(parent, end, <<>>)
                  IN  PathResult(path, Len(path) - 1)
             ELSE LET r == bfs_visit(get_active_neighbors(g, vul, dis, current),
                                     1, current, Tail(queue), parent)
                  IN  bfs_loop(g, vul, dis, end, r[1], r[2])

bfs_shortest_path(g, vul, dis, start, end) ==
    bfs_loop(g, vul, dis, end, <<start>>, [c \in {start} |-> <<>>])

\* --------------------------------------------------- find_k_disjoint_paths
\* an inner dict {neighbor: capacity} in insertion order: a sequence of
\* <<neighbor, capacity>>
DictKeys(d) == {d[i][1] : i \in 1..Len(d)}
DictGet(d, k, default) ==
    IF k \in DictKeys(d) THEN d[CHOOSE i \in 1..Len(d) : d[i][1] = k][2]
    ELSE default
DictSet(d, k, v) ==
    IF k \in DictKeys(d)
    THEN [i \in 1..Len(d) |-> IF d[i][1] = k THEN <<k, v>> ELSE d[i]]
    ELSE Append(d, <<k, v>>)
DictDel(d, k) == LET NotK(e) == e[1] /= k IN SelectSeq(d, NotK)

\* residual_graph[city] for one city: capacity 1 per distinct neighbor
RECURSIVE residual_row(_, _, _)
residual_row(list, i, row) ==
    IF i > Len(list) THEN row
    ELSE IF list[i][1] \notin DictKeys(row)
         THEN residual_row(list, i + 1, Append(row, <<list[i][1], 1>>))
         ELSE residual_row(list, i + 1, row)

initial_residual(g) == [c \in Cities(g) |-> residual_row(Adj(g, c), 1, <<>>)]

ResidualGet(residual, city) ==
    IF city \in DOMAIN residual THEN residual[city] ELSE <<>>

\* _dfs_augmenting_path: <<path or <<>> for None, visited after the call>>;
\* the set visited is shared by all the recursive calls
RECURSIVE dfs_augmenting_path(_, _, _, _, _)
RECURSIVE dfs_neighbors(_, _, _, _, _, _, _)
dfs_augmenting_path(residual, start, end, vul, visited) ==
    IF start = end THEN <<<<end>>, visited>>
    ELSE dfs_neighbors(residual, start, end, vul,
                       ResidualGet(residual, start), 1, visited \cup {start})

\* the neighbour loop without the test on vulnerable_edges
RECURSIVE dfs_neighbors_any_road(_, _, _, _, _, _, _)
dfs_neighbors_any_road(residual, start, end, vul, row, i, visited) ==
    IF i > Len(row) THEN <<<<>>, visited>>
    ELSE LET neighbor == row[i][1]
         IN  IF neighbor \notin visited /\ row[i][2] > 0
             THEN LET r == dfs_augmenting_path(residual, neighbor, end, vul,
                                               visited)
                  IN  IF r[1] /= <<>> THEN <<<<start>> \o r[1], r[2]>>
                      ELSE dfs_neighbors_any_road(residual, start, end, vul,
                                                  row, i + 1, r[2])
             ELSE dfs_neighbors_any_road(residual, start, end, vul, row, i + 1,
                                         visited)

dfs_neighbors(residual, start, end, vul, row, i, visited) ==
    IF i > Len(row) THEN <<<<>>, visited>>
    ELSE LET neighbor == row[i][1]
         IN  IF neighbor \notin visited /\ row[i][2] > 0
                /\ <<start, neighbor>> \notin vul
             THEN LET r == dfs_augmenting_path(residual, neighbor, end, vul,
                                               visited)
                  IN  IF r[1] /= <<>> THEN <<<<start>> \o r[1], r[2]>>
                      ELSE dfs_neighbors(residual, start, end, vul, row,
                                         i + 1, r[2])
             ELSE dfs_neighbors(residual, start, end, vul, row, i + 1, visited)

\* "Reduce capacity along the path"
RECURSIVE reduce_capacity(_, _, _)
reduce_capacity(residual, path, i) ==
    IF i > Len(path) - 1 THEN residual
    ELSE LET u  == path[i]
             v  == path[i + 1]
             c  == DictGet(residual[u], v, 0) - 1
             r1 == [residual EXCEPT ![u] =
                       IF c = 0 THEN DictDel(residual[u], v)
                       ELSE DictSet(residual[u], v, c)]
             r2 == [x \in DOMAIN r1 \cup {v} |->
                       IF x \in DOMAIN r1 THEN r1[x] ELSE <<>>]
             r3 == [r2 EXCEPT ![v] = DictSet(r2[v], u, DictGet(r2[v], u, 0) + 1)]
         IN  reduce_capacity(r3, path, i + 1)

\* "for _ in range(k)": the list paths
RECURSIVE augment_loop(_, _, _, _, _, _)
augment_loop(residual, start, end, vul, n, paths) ==
    IF n = 0 THEN paths
    ELSE LET path == dfs_augmenting_path(residual, start, end, vul, {})[1]
         IN  IF path = <<>> THEN paths
             ELSE augment_loop(reduce_capacity(residual, path, 1), start, end,
                               vul, n - 1, Append(paths, path))

\* find_k_disjoint_paths with the slip "break" after the first path
find_k_disjoint_paths_first_only(g, vul, start, end, k) ==
    augment_loop(initial_residual(g), start, end, vul, IF k > 1 THEN 1 ELSE k,
                 <<>>)

find_k_disjoint_paths(g, vul, start, end, k) ==
    augment_loop(initial_residual(g), start, end, vul, k, <<>>)

\* =========================================================== coloring.py
\* degree_list.sort() without "reverse=True": ascending degree
RECURSIVE sort_forward(_, _)
sort_forward(degree, cities) ==
    IF cities = {} THEN <<>>
    ELSE LET low == CHOOSE c \in cities : \A d \in cities :
                        \/ degree[c] < degree[d]
                        \/ degree[c] = degree[d] /\ c <= d
         IN  <<low>> \o sort_forward(degree, cities \ {low})

\* degree_list.sort(reverse=True) on (degree, city) tuples: the cities by
\* descending active degree, larger id first among equal degrees
RECURSIVE sort_reverse(_, _)
sort_reverse(degree, cities) ==
    IF cities = {} THEN <<>>
    ELSE LET top == CHOOSE c \in cities : \A d \in cities :
                        \/ degree[c] > degree[d]
                        \/ degree[c] = degree[d] /\ c >= d
         IN  <<top>> \o sort_reverse(degree, cities \ {top})

\* a color above every used one instead of the smallest free one
first_free_color_above(used_colors, color) ==
    IF used_colors = {} THEN color
    ELSE 1 + CHOOSE c \in used_colors : \A d \in used_colors : d <= c

\* "color = 0; while color in used_colors: color += 1"
RECURSIVE first_free_color(_, _)
first_free_color(used_colors, color) ==
    IF color \in used_colors THEN first_free_color(used_colors, color + 1)
    ELSE color

\* the loop "for _, city in degree_list"; coloring is the dict city -> color
RECURSIVE assign_colors(_, _, _, _, _, _)
assign_colors(g, vul, dis, order, i, coloring) ==
    IF i > Len(order) THEN coloring
    ELSE LET city == order[i]
             neighbors == get_active_neighbors(g, vul, dis, city)
             used_colors == {coloring[neighbors[j][1]] :
                               j \in {k \in 1..Len(neighbors) :
                                        neighbors[k][1] \in DOMAIN coloring}}
             color == first_free_color(used_colors, 0)
         IN  assign_colors(g, vul, dis, order, i + 1,
                           [c \in DOMAIN coloring \cup {city} |->
                              IF c = city THEN color ELSE coloring[c]])

MaxColor(coloring) ==
    CHOOSE m \in {coloring[c] : c \in DOMAIN coloring} :
        \A c \in DOMAIN coloring : coloring[c] <= m

greedy_graph_coloring(g, vul, dis) ==
    IF Len(get_all_cities(g)) = 0
    THEN [coloring |-> <<>>, chromatic_number |-> 0]
    ELSE LET degree == [c \in Cities(g) |->
                           Len(get_active_neighbors(g, vul, dis, c))]
             coloring == assign_colors(g, vul, dis,
                                       sort_reverse(degree, Cities(g)), 1, <<>>)
         IN  [coloring |-> coloring,
              chromatic_number |-> MaxColor(coloring) + 1]

\* the two loops of validate_coloring: the list violations
RECURSIVE validate_scan(_, _, _, _, _, _, _)
validate_scan(g, vul, dis, coloring, i, j, violations) ==
    IF i > Len(g) THEN violations
    ELSE LET city == g[i][1]
             neighbors == get_active_neighbors(g, vul, dis, city)
         IN  IF city \notin DOMAIN coloring \/ j > Len(neighbors)
             THEN validate_scan(g, vul, dis, coloring, i + 1, 1, violations)
             ELSE LET neighbor == neighbors[j][1]
                      seen == {violations[k] : k \in 1..Len(violations)}
                  IN  IF /\ neighbor \in DOMAIN coloring
                         /\ coloring[neighbor] = coloring[city]
                         /\ <<neighbor, city>> \notin seen
                      THEN validate_scan(g, vul, dis, coloring, i, j + 1,
                                         Append(violations, <<city, neighbor>>))
                      ELSE validate_scan(g, vul, dis, coloring, i, j + 1,
                                         violations)

validate_coloring(g, vul, dis, coloring) ==
    LET violations == validate_scan(g, vul, dis, coloring, 1, 1, <<>>)
    IN  [is_valid |-> Len(violations) = 0, violations |-> violations]

\* ======================================================== graph actions
Nodes == 0..MaxNode
Weights == {1, MaxWeight}

\* roads stored: every road holds two adjacency entries
RECURSIVE CountEntries(_, _)
CountEntries(g, i) ==
    IF i > Len(g) THEN 0 ELSE Len(g[i][2]) + CountEntries(g, i + 1)
NumRoads(g) == CountEntries(g, 1) \div 2

\* the graph of test_kruskal_basic and test_dijkstra_basic
BasicRoads == <<<<0, 1, 4>>, <<0, 2, 2>>, <<1, 2, 1>>, <<1, 3, 5>>, <<2, 3, 8>>>>

\* a list of construction calls: <<c1, c2, w>> is add_road(c1, c2, w) and
\* <<c>> is add_city(c)
RECURSIVE BuildRoads(_, _, _)
BuildRoads(g, calls, i) ==
    IF i > Len(calls) THEN g
    ELSE BuildRoads(IF Len(calls[i]) = 1
                    THEN add_city(g, calls[i][1])
                    ELSE add_road(g, calls[i][1], calls[i][2], calls[i][3]),
                    calls, i + 1)

BasicGraph == BuildRoads(<<>>, BasicRoads, 1)

\* a fresh EmergencyGraph, or the one the tests build with five add_road calls
GraphInit ==
    /\ graph \in {<<>>, BasicGraph}
    /\ vulnerable_edges = {}
    /\ disabled_nodes = {}
    /\ tree = NewTree("BST")
    /\ ret = NoCall

\* the graphs of test_vulnerable_edges, test_k_disjoint_paths and
\* test_bfs_shortest_path
DetourRoads == <<<<0, 1, 1>>, <<1, 2, 1>>, <<0, 2, 10>>>>
SquareRoads == <<<<0, 1, 1>>, <<0, 2, 1>>, <<1, 3, 1>>, <<2, 3, 1>>>>
RingRoads == <<<<0, 1, 1>>, <<1, 2, 1>>, <<2, 3, 1>>, <<0, 3, 100>>>>
TestRoads == {BasicRoads, DetourRoads, SquareRoads, RingRoads}

\* every network built by at most MaxCalls add_city / add_road calls, and the
\* networks of the tests
BuildCalls == {<<c>> : c \in Nodes} \cup (Nodes \X Nodes \X Weights)
Networks ==
    {BuildRoads(<<>>, calls, 1) :
        calls \in UNION {[1..n -> BuildCalls] : n \in 0..MaxCalls}}
      \cup {BuildRoads(<<>>, roads, 1) : roads \in TestRoads}

NetworkInit ==
    /\ graph \in Networks
    /\ vulnerable_edges = {}
    /\ disabled_nodes = {}
    /\ tree = NewTree("BST")
    /\ ret = NoCall

\* ids offered to the queries: the pool and every city of the graph
Ids == Nodes \cup Cities(graph)

\* iteration order of a Python set of city ids: the ids of app.py and of the
\* tests are ints below 8, which CPython keeps in ascending order
RECURSIVE set_order(_)
set_order(S) ==
    IF S = {} THEN <<>>
    ELSE LET m == CHOOSE x \in S : \A y \in S : x <= y
         IN  <<m>> \o set_order(S \ {m})

\* ================================================= paths.py, failure.py
\* "for neighbor, _ in graph.get_active_neighbors(current)" of the component
\* search: <<queue, visited, component>>
RECURSIVE component_visit(_, _, _, _, _)
component_visit(nbrs, i, queue, visited, component) ==
    IF i > Len(nbrs) THEN <<queue, visited, component>>
    ELSE LET neighbor == nbrs[i][1]
         IN  IF neighbor \notin visited
             THEN component_visit(nbrs, i + 1, Append(queue, neighbor),
                                  visited \cup {neighbor},
                                  component \cup {neighbor})
             ELSE component_visit(nbrs, i + 1, queue, visited, component)

\* "while queue": <<visited, component>>
RECURSIVE component_loop(_, _, _, _, _, _)
component_loop(g, vul, dis, queue, visited, component) ==
    IF queue = <<>> THEN <<visited, component>>
    ELSE LET r == component_visit(get_active_neighbors(g, vul, dis, Head(queue)),
                                  1, Tail(queue), visited, component)
         IN  component_loop(g, vul, dis, r[1], r[2], r[3])

\* "for city in graph.get_all_cities()": the list of components
RECURSIVE find_components(_, _, _, _, _, _)
find_components(g, vul, dis, i, visited, components) ==
    IF i > Len(g) THEN components
    ELSE LET city == g[i][1]
         IN  IF city \notin visited /\ city \notin dis
             THEN LET r == component_loop(g, vul, dis, <<city>>,
                                          visited \cup {city}, {city})
                  IN  find_components(g, vul, dis, i + 1, r[1],
                                      Append(components, r[2]))
             ELSE find_components(g, vul, dis, i + 1, visited, components)

\* max(components, key=len): the first component of greatest size
largest_component(components) ==
    LET best == {i \in 1..Len(components) :
                    \A j \in 1..Len(components) :
                        Cardinality(components[j]) <= Cardinality(components[i])}
    IN  components[CHOOSE i \in best : \A j \in best : i <= j]

\* get_affected_nodes: the affected set and disabled_nodes as the call leaves it
get_affected_nodes(g, vul, dis, disabled_node) ==
    LET dis1 == disable_city(g, dis, disabled_node)
        components == find_components(g, vul, dis1, 1, {}, <<>>)
        affected ==
            IF Len(components) > 1
            THEN UNION {components[i] : i \in
                          {j \in 1..Len(components) :
                              components[j] /= largest_component(components)}}
            ELSE {}
    IN  [affected |-> affected, disabled_nodes |-> enable_city(dis1, disabled_node)]

\* the pairs (start, end) the connectivity loops of analyze_node_failure reach
failure_pairs(g, dis, failed_node) ==
    {p \in Cities(g) \X Cities(g) :
        /\ p[1] /= failed_node /\ p[1] \notin dis
        /\ p[2] /= failed_node /\ p[2] \notin dis /\ p[2] /= p[1]}

\* analyze_node_failure: the analysis and disabled_nodes as the call leaves it;
\* connectivity_loss is lost_connections / total_pairs * 100, kept as its two
\* terms.  start and end are cities of the graph, so no query raises.
analyze_node_failure(g, vul, dis, failed_node) ==
    LET a == get_affected_nodes(g, vul, dis, failed_node)
        dis2 == disable_city(g, a.disabled_nodes, failed_node)
        pairs == failure_pairs(g, dis2, failed_node)
        lost == {p \in pairs :
                    dijkstra_shortest_path(g, vul, dis2, p[1], p[2],
                                           set_order(Cities(g))).path = NonePath}
    IN  [analysis |-> [failed_node |-> failed_node,
                       affected_nodes |-> a.affected,
                       isolated_nodes |-> {p[2] : p \in lost},
                       lost_connections |-> Cardinality(lost),
                       total_pairs |-> Cardinality(pairs)],
         disabled_nodes |-> enable_city(dis2, failed_node)]

\* "for start ... for end ...: if path and city1 in path and city2 in path"
RECURSIVE affected_paths_scan(_, _, _, _, _, _, _, _)
affected_paths_scan(g, vul, dis, city1, city2, i, j, affected_paths) ==
    IF i > Len(g) THEN affected_paths
    ELSE IF j > Len(g)
    THEN affected_paths_scan(g, vul, dis, city1, city2, i + 1, 1, affected_paths)
    ELSE LET start == g[i][1]
             end == g[j][1]
             path == dijkstra_shortest_path(g, vul, dis, start, end,
                                            set_order(Cities(g))).path
             On(c) == \E n \in 1..Len(path) : path[n] = c
         IN  affected_paths_scan(g, vul, dis, city1, city2, i, j + 1,
                 IF start /= end /\ path /= NonePath /\ On(city1) /\ On(city2)
                 THEN Append(affected_paths, <<start, end>>)
                 ELSE affected_paths)

\* analyze_edge_failure: the analysis and vulnerable_edges as the call leaves it
analyze_edge_failure(g, vul, dis, city1, city2) ==
    LET vul1 == mark_vulnerable_road(g, vul, city1, city2)
    IN  [analysis |-> [failed_edge |-> <<city1, city2>>,
                       affected_paths |->
                           affected_paths_scan(g, vul1, dis, city1, city2,
                                               1, 1, <<>>)],
         vulnerable_edges |-> (vul1 \ {<<city1, city2>>}) \ {<<city2, city1>>}]

\* "if phase > 10": the round ceiling
RoundCeiling == 10

\* a round that counts failed cities among the critical ones
cascade_round_counts_failed(g, vul, dis, failed) ==
    {node \in Cities(g) :
        /\ node \notin failed /\ node \notin dis
        /\ LET critical == {other \in Cities(g) : other /= node}
               connected == {other \in critical :
                   dijkstra_shortest_path(g, vul, dis, node, other,
                                          set_order(Cities(g))).path /= NonePath}
           IN  /\ Cardinality(critical) > 0
               /\ 10 * Cardinality(connected) < 3 * Cardinality(critical)}

\* one round of the cascade: the set newly_failed.  connectivity < 0.3 is
\* 10 * connected_count < 3 * total_critical
cascade_round(g, vul, dis, failed) ==
    {node \in Cities(g) :
        /\ node \notin failed /\ node \notin dis
        /\ LET critical == {other \in Cities(g) :
                               other \notin failed /\ other /= node}
               connected == {other \in critical :
                   dijkstra_shortest_path(g, vul, dis, node, other,
                                          set_order(Cities(g))).path /= NonePath}
           IN  /\ Cardinality(critical) > 0
               /\ 10 * Cardinality(connected) < 3 * Cardinality(critical)}

\* the cascade loop without "failed.update(newly_failed)"
RECURSIVE cascade_loop_no_update(_, _, _, _, _, _)
cascade_loop_no_update(g, vul, dis, failed, phase, phases) ==
    LET newly_failed == cascade_round(g, vul, dis, failed)
        phase_info == [phase |-> phase, newly_failed |-> newly_failed,
                       total_failed_so_far |-> failed \cup newly_failed]
    IN  IF newly_failed = {}
        THEN [phases |-> phases, total_failed |-> failed, rounds |-> phase]
        ELSE IF phase > RoundCeiling
        THEN [phases |-> Append(phases, phase_info), total_failed |-> failed,
              rounds |-> phase]
        ELSE cascade_loop_no_update(g, vul, dis, failed, phase + 1,
                                    Append(phases, phase_info))

\* the cascade loop with the slip "failed = newly_failed"
RECURSIVE cascade_loop_forgets(_, _, _, _, _, _)
cascade_loop_forgets(g, vul, dis, failed, phase, phases) ==
    LET newly_failed == cascade_round(g, vul, dis, failed)
        phase_info == [phase |-> phase, newly_failed |-> newly_failed,
                       total_failed_so_far |-> failed \cup newly_failed]
    IN  IF newly_failed = {}
        THEN [phases |-> phases, total_failed |-> failed, rounds |-> phase]
        ELSE IF phase > RoundCeiling
        THEN [phases |-> Append(phases, phase_info),
              total_failed |-> newly_failed, rounds |-> phase]
        ELSE cascade_loop_forgets(g, vul, dis, newly_failed, phase + 1,
                                  Append(phases, phase_info))

\* "while True" with phase already incremented: the phases, the set failed and
\* the number of rounds evaluated when the loop is left
RECURSIVE cascade_loop(_, _, _, _, _, _)
cascade_loop(g, vul, dis, failed, phase, phases) ==
    LET newly_failed == cascade_round(g, vul, dis, failed)
        phase_info == [phase |-> phase, newly_failed |-> newly_failed,
                       total_failed_so_far |-> failed \cup newly_failed]
    IN  IF newly_failed = {}
        THEN [phases |-> phases, total_failed |-> failed, rounds |-> phase]
        ELSE IF phase > RoundCeiling
        THEN [phases |-> Append(phases, phase_info),
              total_failed |-> failed \cup newly_failed, rounds |-> phase]
        ELSE cascade_loop(g, vul, dis, failed \cup newly_failed, phase + 1,
                          Append(phases, phase_info))

\* simulate_cascade_failure that starts from an empty failed set
simulate_cascade_failure_no_seeds(g, vul, dis, initial_failed_nodes) ==
    cascade_loop(g, vul, dis, {}, 1, <<>>)

\* simulate_cascade_failure; initial_failed_nodes is the set of the list
simulate_cascade_failure(g, vul, dis, initial_failed_nodes) ==
    cascade_loop(g, vul, dis, initial_failed_nodes, 1, <<>>)

\* ------------------------------------------------------------ actions
AddCity(c) ==
    /\ ret = NoCall
    /\ graph' = add_city(graph, c)
    /\ UNCHANGED <<tree, vulnerable_edges, disabled_nodes, ret>>

RemoveCity(c) ==
    /\ ret = NoCall
    /\ LET r == remove_city(graph, disabled_nodes, c)
       IN  graph' = r[1] /\ disabled_nodes' = r[2]
    /\ UNCHANGED <<tree, vulnerable_edges, ret>>

DisableCity(c) ==
    /\ ret = NoCall
    /\ Cardinality(disabled_nodes \cup {c}) <= MaxDisabled
    /\ disabled_nodes' = disable_city(graph, disabled_nodes, c)
    /\ UNCHANGED <<tree, graph, vulnerable_edges, ret>>

EnableCity(c) ==
    /\ ret = NoCall
    /\ disabled_nodes' = enable_city(disabled_nodes, c)
    /\ UNCHANGED <<tree, graph, vulnerable_edges, ret>>

AddRoad(c1, c2, w) ==
    /\ ret = NoCall
    /\ NumRoads(graph) < MaxRoads
    /\ graph' = add_road(graph, c1, c2, w)
    /\ UNCHANGED <<tree, vulnerable_edges, disabled_nodes, ret>>

RemoveRoad(c1, c2) ==
    /\ ret = NoCall
    /\ LET r == remove_road(graph, vulnerable_edges, c1, c2)
       IN  graph' = r[1] /\ vulnerable_edges' = r[2]
    /\ UNCHANGED <<tree, disabled_nodes, ret>>

MarkVulnerable(c1, c2) ==
    /\ ret = NoCall
    /\ Cardinality(vulnerable_edges \cup {<<c1, c2>>, <<c2, c1>>})
         <= 2 * MaxVulnerable
    /\ vulnerable_edges' = mark_vulnerable_road(graph, vulnerable_edges, c1, c2)
    /\ UNCHANGED <<tree, graph, disabled_nodes, ret>>

\* the calls that change the network's cities and roads
StructNext ==
    \/ \E c \in Nodes : AddCity(c)
    \/ \E c \in Nodes : RemoveCity(c)
    \/ \E c1, c2 \in Nodes, w \in Weights : AddRoad(c1, c2, w)
    \/ \E c1, c2 \in Nodes : RemoveRoad(c1, c2)

\* the calls that toggle the transient flags
FlagNext ==
    \/ \E c \in Ids : DisableCity(c)
    \/ \E c \in Ids : EnableCity(c)
    \/ \E c1, c2 \in Ids : MarkVulnerable(c1, c2)

GraphNext == StructNext \/ FlagNext

KruskalMST ==
    /\ ret = NoCall
    /\ ret' = [op |-> "kruskal_mst", val |-> kruskal_mst(graph)]
    /\ UNCHANGED <<tree, graphVars>>

Dijkstra(start, end) ==
    /\ ret = NoCall
    /\ ret' = [op |-> "dijkstra_shortest_path", start |-> start, end |-> end,
                val |-> dijkstra_shortest_path(graph, vulnerable_edges,
                                               disabled_nodes, start, end,
                                               set_order(Cities(graph)))]
    /\ UNCHANGED <<tree, graphVars>>

Bfs(start, end) ==
    /\ ret = NoCall
    /\ ret' = [op |-> "bfs_shortest_path", start |-> start, end |-> end,
                val |-> bfs_shortest_path(graph, vulnerable_edges,
                                          disabled_nodes, start, end)]
    /\ UNCHANGED <<tree, graphVars>>

FindKDisjointPaths(start, end, k) ==
    /\ ret = NoCall
    /\ ret' = [op |-> "find_k_disjoint_paths", start |-> start, end |-> end,
                k |-> k,
                val |-> find_k_disjoint_paths(graph, vulnerable_edges,
                                              start, end, k)]
    /\ UNCHANGED <<tree, graphVars>>

MSTNext == StructNext \/ KruskalMST \/ Return

PathsNext ==
    \/ FlagNext
    \/ \E start, end \in Ids : Dijkstra(start, end)
    \/ \E start, end \in Ids : Bfs(start, end)
    \/ Return

FlowNext ==
    \/ FlagNext
    \/ \E start, end \in Ids, k \in 1..MaxK : FindKDisjointPaths(start, end, k)
    \/ Return

\* the frequency-assignment handler: greedy_graph_coloring, then
\* validate_coloring on the coloring it returned
GreedyColoring ==
    /\ ret = NoCall
    /\ LET r == greedy_graph_coloring(graph, vulnerable_edges, disabled_nodes)
       IN  ret' = [op |-> "greedy_graph_coloring", val |-> r,
                   validation |-> validate_coloring(graph, vulnerable_edges,
                                                    disabled_nodes, r.coloring)]
    /\ UNCHANGED <<tree, graphVars>>

ColoringNext == StructNext \/ GreedyColoring \/ Return

SpecColoring == NetworkInit /\ [][ColoringNext]_vars

\* the Graph as a caller sees it
Snapshot ==
    [graph |-> graph, vulnerable_edges |-> vulnerable_edges,
     disabled_nodes |-> disabled_nodes]

\* FailureAnalyzer(graph).analyze_node_failure(failed_node); before is the
\* Graph when the call was made
AnalyzeNodeFailure(failed_node) ==
    /\ ret = NoCall
    /\ LET r == analyze_node_failure(graph, vulnerable_edges, disabled_nodes,
                                     failed_node)
       IN  /\ disabled_nodes' = r.disabled_nodes
           /\ ret' = [op |-> "analyze_node_failure", val |-> r.analysis,
                      before |-> Snapshot]
    /\ UNCHANGED <<tree, graph, vulnerable_edges>>

AnalyzeEdgeFailure(city1, city2) ==
    /\ ret = NoCall
    /\ LET r == analyze_edge_failure(graph, vulnerable_edges, disabled_nodes,
                                     city1, city2)
       IN  /\ vulnerable_edges' = r.vulnerable_edges
           /\ ret' = [op |-> "analyze_edge_failure", val |-> r.analysis,
                      before |-> Snapshot]
    /\ UNCHANGED <<tree, graph, disabled_nodes>>

SimulateCascadeFailure(initial_failed_nodes) ==
    /\ ret = NoCall
    /\ ret' = [op |-> "simulate_cascade_failure",
               seeds |-> initial_failed_nodes,
               val |-> simulate_cascade_failure(graph, vulnerable_edges,
                                                disabled_nodes,
                                                initial_failed_nodes)]
    /\ UNCHANGED <<tree, graphVars>>

FailureNext ==
    \/ FlagNext
    \/ \E failed_node \in Ids : AnalyzeNodeFailure(failed_node)
    \/ \E city1, city2 \in Ids : AnalyzeEdgeFailure(city1, city2)
    \/ Return

CascadeNext ==
    \/ FlagNext
    \/ \E seeds \in SUBSET Ids : SimulateCascadeFailure(seeds)
    \/ Return

SpecFailure == NetworkInit /\ [][FailureNext]_vars
SpecCascade == NetworkInit /\ [][CascadeNext]_vars
\* a caller's disable_city(city) followed by enable_city(city), as in
\* get_affected_nodes; before is the Graph when the first call was made and
\* between is disabled_nodes after the first call
DisableEnable(city) ==
    /\ ret = NoCall
    /\ LET between == disable_city(graph, disabled_nodes, city)
       IN  /\ disabled_nodes' = enable_city(between, city)
           /\ ret' = [op |-> "disable_enable", city |-> city,
                      before |-> Snapshot, between |-> between]
    /\ UNCHANGED <<tree, graph, vulnerable_edges>>

ToggleNext ==
    \/ FlagNext
    \/ \E city \in Ids : DisableEnable(city)
    \/ Return

SpecToggle == NetworkInit /\ [][ToggleNext]_vars
GetAllEdges ==
    /\ ret = NoCall
    /\ ret' = [op |-> "get_all_edges", val |-> get_all_edges(graph)]
    /\ UNCHANGED <<tree, graphVars>>

EdgesNext == StructNext \/ GetAllEdges \/ Return

SpecEdges == NetworkInit /\ [][EdgesNext]_vars
ActiveColoringNext == FlagNext \/ GreedyColoring \/ Return

SpecActiveColoring == NetworkInit /\ [][ActiveColoringNext]_vars
\* every mutator of the Graph Model, roads being added with weight 1
MarksNext ==
    \/ \E c \in Nodes : AddCity(c)
    \/ \E c \in Nodes : RemoveCity(c)
    \/ \E c1, c2 \in Nodes : AddRoad(c1, c2, 1)
    \/ \E c1, c2 \in Nodes : RemoveRoad(c1, c2)
    \/ FlagNext

SpecMarks == NetworkInit /\ [][MarksNext]_vars
SpecGraph == GraphInit /\ [][GraphNext]_vars
SpecMST == NetworkInit /\ [][MSTNext]_vars
SpecPaths == NetworkInit /\ [][PathsNext]_vars
SpecFlow == NetworkInit /\ [][FlowNext]_vars

\* ================================================================ claims
\* ---- reference notions the claims are stated with
RECURSIVE KeysOf(_)
KeysOf(node) ==
    IF node = Nil THEN {}
    ELSE KeysOf(Left(node)) \cup {Value(node)} \cup KeysOf(Right(node))

\* all keys left of a node are smaller, all keys right of it are larger
RECURSIVE OrderedAt(_)
OrderedAt(node) ==
    \/ node = Nil
    \/ /\ \A k \in KeysOf(Left(node)) : k < Value(node)
       /\ \A k \in KeysOf(Right(node)) : k > Value(node)
       /\ OrderedAt(Left(node))
       /\ OrderedAt(Right(node))

StrictlyIncreasing(s) == \A i \in 1..(Len(s) - 1) : s[i] < s[i + 1]

RECURSIVE CeilLog2From(_, _, _)
CeilLog2From(m, k, p) == IF p >= m THEN k ELSE CeilLog2From(m, k + 1, 2 * p)
\* the least k with 2^k >= m
CeilLog2(m) == CeilLog2From(m, 0, 1)

NumKeys(t) == Len(inorder_traversal(t))

\* C1: after any sequence of AVLTree.insert and AVLTree.delete calls from the
\* empty tree, is_balanced() is true.
C1_AVLBalanced == tree.kind = "AVL" => is_balanced(tree)

\* C2: after any sequence of AVLTree.insert and AVLTree.delete calls,
\* get_height() is at most ceil(log2(n + 1)) + 1 for the n keys stored.
C2_AVLHeightBound ==
    tree.kind = "AVL" => get_height(tree) <= CeilLog2(NumKeys(tree) + 1) + 1

\* C3: after any sequence of insert and delete calls on a BinarySearchTree or
\* an AVLTree, every node has only smaller keys on its left and only larger
\* keys on its right, and inorder_traversal() is strictly increasing.
C3_Ordering ==
    /\ OrderedAt(tree.root)
    /\ StrictlyIncreasing(inorder_traversal(tree))

\* an AVLTree that has rotated on the way to five keys and then deleted a key
\* with two children
C3_Witness ==
    /\ tree.kind = "AVL"
    /\ ret.op = "delete" /\ ret.val = TRUE
    /\ NumKeys(tree) >= 4
    /\ get_height(tree) = 3
    /\ \E k \in KeysOf(tree.root) : k < ret.arg
    /\ \E k \in KeysOf(tree.root) : k > ret.arg

\* C4: for a tree t built by BinarySearchTree insert/delete calls,
\* rebalance_tree(t) returns a tree with t's inorder_traversal() and leaves t
\* as it was.
C4_RebalancePreserves ==
    [][(ret'.op = "rebalance_tree" /\ tree.kind = "BST")
         => /\ tree' = tree
            /\ inorder_traversal(ret'.val) = inorder_traversal(tree)]_vars

\* rebalance_tree has rebuilt a degenerate BinarySearchTree of four keys
C4_Witness ==
    /\ ret.op = "rebalance_tree"
    /\ tree.kind = "BST"
    /\ NumKeys(tree) >= 4
    /\ get_height(tree) = NumKeys(tree)
    /\ get_height(ret.val) < get_height(tree)

\* ---- reference notions for the graph claims
\* the roads stored in the graph, each once: <<i, j>> is entry j of the
\* adjacency list of city i, taken at the smaller endpoint
Roads(g) ==
    {r \in UNION {{<<i, j>> : j \in 1..Len(g[i][2])} : i \in 1..Len(g)} :
        g[r[1]][1] < g[r[1]][2][r[2]][1]}
RoadEnds(g, r) == {g[r[1]][1], g[r[1]][2][r[2]][1]}
RoadWeight(g, r) == g[r[1]][2][r[2]][2]

\* the cities joined to those of S by links (a set of two-city sets)
RECURSIVE Joined(_, _)
Joined(S, links) ==
    LET T == S \cup UNION {l \in links : l \cap S /= {}}
    IN  IF T = S THEN S ELSE Joined(T, links)

NumComponents(cities, links) ==
    Cardinality({Joined({c}, links) : c \in cities})

RECURSIVE SumWeights(_, _)
SumWeights(g, F) ==
    IF F = {} THEN 0
    ELSE LET r == CHOOSE x \in F : TRUE
         IN  RoadWeight(g, r) + SumWeights(g, F \ {r})

\* F, a set of roads, has no cycle and joins whatever the graph joins
SpanningForest(g, F) ==
    LET links == {RoadEnds(g, r) : r \in F}
    IN  /\ Cardinality(F) = Cardinality(Cities(g)) - NumComponents(Cities(g), links)
        /\ NumComponents(Cities(g), links)
             = NumComponents(Cities(g), {RoadEnds(g, r) : r \in Roads(g)})

EdgeLinks(edges) == {{edges[i][1], edges[i][2]} : i \in 1..Len(edges)}

RECURSIVE SumEdges(_, _)
SumEdges(edges, i) ==
    IF i > Len(edges) THEN 0 ELSE edges[i][3] + SumEdges(edges, i + 1)

\* C5: kruskal_mst returns edges without a cycle, as many as the nodes minus
\* the connected components of the stored graph; for an empty or single-node
\* graph it returns no edges and weight 0.
C5_KruskalForest ==
    ret.op = "kruskal_mst" =>
        LET edges == ret.val.mst_edges
            n     == Cardinality(Cities(graph))
        IN  /\ Len(edges) = n - NumComponents(Cities(graph), EdgeLinks(edges))
            /\ Len(edges) = n - NumComponents(Cities(graph),
                                   {RoadEnds(graph, r) : r \in Roads(graph)})
            /\ n <= 1 => edges = <<>> /\ ret.val.total_weight = 0

\* kruskal_mst has run on a graph of several components, one with a cycle
C5_Witness ==
    /\ ret.op = "kruskal_mst"
    /\ NumComponents(Cities(graph),
                     {RoadEnds(graph, r) : r \in Roads(graph)}) >= 2
    /\ Len(ret.val.mst_edges) >= 2
    /\ Cardinality(Roads(graph)) > Len(ret.val.mst_edges)

\* C6: the total weight kruskal_mst returns is the sum of the weights of the
\* returned edges and the least total weight of a spanning forest of the
\* graph; on the graph of test_kruskal_basic it is 8 with the edges (1,2,1),
\* (0,2,2), (1,3,5).
C6_KruskalMinimal ==
    ret.op = "kruskal_mst" =>
        LET edges == ret.val.mst_edges
            total == ret.val.total_weight
        IN  /\ total = SumEdges(edges, 1)
            /\ \A F \in SUBSET Roads(graph) :
                   SpanningForest(graph, F) => total <= SumWeights(graph, F)
            /\ \E F \in SUBSET Roads(graph) :
                   SpanningForest(graph, F) /\ total = SumWeights(graph, F)
            /\ graph = BasicGraph =>
                   /\ total = 8
                   /\ {edges[i] : i \in 1..Len(edges)}
                        = {<<1, 2, 1>>, <<0, 2, 2>>, <<1, 3, 5>>}

\* kruskal_mst has run on the graph of test_kruskal_basic, which has heavier
\* spanning trees than the one returned
C6_Witness ==
    /\ ret.op = "kruskal_mst"
    /\ graph = BasicGraph
    /\ ret.val.total_weight = 8
    /\ \E F \in SUBSET Roads(graph) :
           SpanningForest(graph, F) /\ SumWeights(graph, F) > 8

\* ---- reference notions for the path claims
\* the weights of the roads that lead from u to v and may be used: neither
\* city is disabled and the road u-v is not marked vulnerable
StepWeights(u, v) ==
    IF u \in disabled_nodes \/ v \in disabled_nodes
       \/ <<u, v>> \in vulnerable_edges
    THEN {}
    ELSE {GraphGet(graph, u)[j][2] :
            j \in {k \in 1..Len(GraphGet(graph, u)) : GraphGet(graph, u)[k][1] = v}}

\* the cities some active route leads to from those of S
RECURSIVE ActiveReach(_)
ActiveReach(S) ==
    LET T == S \cup {v \in Cities(graph) : \E u \in S : StepWeights(u, v) /= {}}
    IN  IF T = S THEN S ELSE ActiveReach(T)

MinOf(S) == CHOOSE x \in S : \A y \in S : x <= y

\* least total weight of an active route of at most n steps from start, per
\* city reached (Bellman-Ford rounds)
RECURSIVE LeastWithin(_, _)
LeastWithin(start, n) ==
    IF n = 0 THEN [c \in {start} |-> 0]
    ELSE LET d == LeastWithin(start, n - 1)
             Cand(v) == (IF v \in DOMAIN d THEN {d[v]} ELSE {})
                          \cup UNION {{d[u] + w : w \in StepWeights(u, v)} :
                                        u \in DOMAIN d}
             reached == {v \in Cities(graph) \cup {start} : Cand(v) /= {}}
         IN  [v \in reached |-> MinOf(Cand(v))]

LeastDistance(start) == LeastWithin(start, Cardinality(Cities(graph)))

\* the totals a path can add up to, one usable road per step
RECURSIVE PathSums(_, _)
PathSums(path, i) ==
    IF i >= Len(path) THEN {0}
    ELSE {w + t : w \in StepWeights(path[i], path[i + 1]),
                  t \in PathSums(path, i + 1)}

IsDijkstra == ret.op = "dijkstra_shortest_path"
InGraph(c) == c \in Cities(graph)

\* C7: for start and end in the graph, the path dijkstra_shortest_path returns
\* begins at start, ends at end, moves only between active neighbours, and its
\* distance is the sum of the traversed weights and the least over all active
\* routes; for start = end it is [start] with distance 0.
C7_DijkstraShortest ==
    (IsDijkstra /\ InGraph(ret.start) /\ InGraph(ret.end)) =>
        LET path == ret.val.path
        IN  /\ ret.val.exc = "none"
            /\ path /= NonePath =>
                 /\ path[1] = ret.start
                 /\ path[Len(path)] = ret.end
                 /\ ret.val.distance \in PathSums(path, 1)
                 /\ ret.end \in DOMAIN LeastDistance(ret.start)
                 /\ ret.val.distance = LeastDistance(ret.start)[ret.end]
            /\ ret.start = ret.end =>
                 path = <<ret.start>> /\ ret.val.distance = 0

\* dijkstra_shortest_path has returned a route of two or more roads although
\* a single road joins start and end: that road is marked vulnerable
C7_Witness ==
    /\ IsDijkstra /\ InGraph(ret.start) /\ InGraph(ret.end)
    /\ Len(ret.val.path) >= 3
    /\ \E j \in 1..Len(GraphGet(graph, ret.start)) :
           GraphGet(graph, ret.start)[j][1] = ret.end
    /\ <<ret.start, ret.end>> \in vulnerable_edges

\* C8: for distinct start and end in the graph, dijkstra_shortest_path returns
\* (None, inf) exactly when no route over active nodes and non-vulnerable
\* roads leads from start to end, and it does not raise.
C8_DijkstraNoPath ==
    (IsDijkstra /\ InGraph(ret.start) /\ InGraph(ret.end)
       /\ ret.start /= ret.end) =>
        /\ ret.val.exc = "none"
        /\ (ret.val.path = NonePath) <=> (ret.val.distance = Inf)
        /\ (ret.val.path = NonePath) <=> (ret.end \notin ActiveReach({ret.start}))

\* dijkstra_shortest_path has found no route between two cities that roads
\* join: a disabled city or a vulnerable road cuts them off
C8_Witness ==
    /\ IsDijkstra /\ InGraph(ret.start) /\ InGraph(ret.end)
    /\ ret.start /= ret.end
    /\ ret.val = PathResult(NonePath, Inf)
    /\ ret.end \in Joined({ret.start},
                          {RoadEnds(graph, r) : r \in Roads(graph)})

\* C9: a node id that is not in the graph, passed as start, as end or as both
\* to dijkstra_shortest_path, bfs_shortest_path or find_k_disjoint_paths, makes
\* the call return a no-path / empty result without raising.
C9_UnknownIds ==
    (ret.op \in {"dijkstra_shortest_path", "bfs_shortest_path",
                 "find_k_disjoint_paths"}
       /\ ~(InGraph(ret.start) /\ InGraph(ret.end))) =>
        IF ret.op = "find_k_disjoint_paths"
        THEN ret.start /= ret.end => ret.val = <<>>
        ELSE /\ ret.val.exc = "none"
             /\ ret.start /= ret.end => ret.val = PathResult(NonePath, Inf)

\* the roads a path traverses, as undirected pairs of cities
PathRoads(path) == {{path[i], path[i + 1]} : i \in 1..(Len(path) - 1)}

\* C10: for distinct start and end, no road (undirected pair of cities) is
\* traversed by two different paths that find_k_disjoint_paths returns.
C10_EdgeDisjoint ==
    (ret.op = "find_k_disjoint_paths" /\ ret.start /= ret.end) =>
        \A i, j \in 1..Len(ret.val) :
            i /= j => PathRoads(ret.val[i]) \cap PathRoads(ret.val[j]) = {}

\* ---- reference notions for the number of disjoint paths
\* a road joins u and v and is not marked vulnerable
UsableRoad(u, v) ==
    /\ \E j \in 1..Len(GraphGet(graph, u)) : GraphGet(graph, u)[j][1] = v
    /\ <<u, v>> \notin vulnerable_edges

\* the routes from the end of path to target that visit no city twice
RECURSIVE SimpleRoutes(_, _)
SimpleRoutes(path, target) ==
    LET last == path[Len(path)]
        seen == {path[i] : i \in 1..Len(path)}
    IN  IF last = target THEN {path}
        ELSE UNION {SimpleRoutes(Append(path, v), target) :
                      v \in {c \in Cities(graph) \ seen : UsableRoad(last, c)}}

PairwiseDisjoint(P) ==
    \A p, q \in P : p /= q => PathRoads(p) \cap PathRoads(q) = {}

\* the largest number of routes from start to end that share no road
MaxDisjointRoutes(start, end) ==
    LET routes == IF start \in Cities(graph)
                  THEN SimpleRoutes(<<start>>, end) ELSE {}
        sizes  == {Cardinality(P) : P \in {Q \in SUBSET routes : PairwiseDisjoint(Q)}}
    IN  CHOOSE n \in sizes : \A m \in sizes : m <= n

IsFindK == ret.op = "find_k_disjoint_paths"

\* the chain of test_k_disjoint_single_path: 0 - 1 - 2
ChainGraph == BuildRoads(<<>>, <<<<0, 1, 1>>, <<1, 2, 1>>>>, 1)

\* C11: for distinct start and end, find_k_disjoint_paths returns at most k
\* paths, as many as min(k, the largest number of pairwise edge-disjoint
\* routes that avoid vulnerable edges), an edge being an undirected pair of
\* cities; on the chain 0 - 1 - 2 with k = 3 it returns exactly one path.
C11_DisjointCount ==
    (IsFindK /\ ret.start /= ret.end) =>
        LET most == MaxDisjointRoutes(ret.start, ret.end)
        IN  /\ Len(ret.val) <= ret.k
            /\ Len(ret.val) = IF ret.k <= most THEN ret.k ELSE most
            /\ (graph = ChainGraph /\ vulnerable_edges = {} /\ ret.k = 3
                  /\ ret.start = 0 /\ ret.end = 2) => Len(ret.val) = 1

\* find_k_disjoint_paths, asked for three paths, has returned the two that
\* exist
C11_Witness ==
    /\ IsFindK /\ ret.start /= ret.end
    /\ ret.k = 3
    /\ Len(ret.val) = 2
    /\ MaxDisjointRoutes(ret.start, ret.end) = 2

\* ---- reference notions for the coloring claims
IsColoring == ret.op = "greedy_graph_coloring"
\* an active road joins u and v
Adjacent(u, v) == StepWeights(u, v) /= {}
IsTriangle ==
    /\ Cardinality(Cities(graph)) = 3
    /\ \A u, v \in Cities(graph) : u /= v => Adjacent(u, v)
IsBipartite ==
    \E side \in SUBSET Cities(graph) :
        \A u, v \in Cities(graph) : Adjacent(u, v) => (u \in side) /= (v \in side)
HasEdge == \E u, v \in Cities(graph) : Adjacent(u, v)

\* C12: on every graph state the coloring greedy_graph_coloring returns
\* colors every node and validate_coloring accepts it: no active edge joins
\* two nodes of one color and the violation list is empty.
C12_ColoringValid ==
    IsColoring =>
        /\ DOMAIN ret.val.coloring = Cities(graph)
        /\ ret.validation.is_valid
        /\ ret.validation.violations = <<>>
        /\ \A u, v \in Cities(graph) :
               Adjacent(u, v) => ret.val.coloring[u] /= ret.val.coloring[v]

\* C13: greedy_graph_coloring reports 3 colors on every triangle, 2 on every
\* bipartite graph of four nodes with at least one edge, at most 1 on every
\* graph without edges, and 0 with an empty coloring on the empty graph.
C13_ChromaticCounts ==
    IsColoring =>
        LET n == ret.val.chromatic_number
        IN  /\ IsTriangle => n = 3
            /\ (Cardinality(Cities(graph)) = 4 /\ IsBipartite /\ HasEdge) => n = 2
            /\ ~HasEdge => n <= 1
            /\ graph = <<>> => n = 0 /\ ret.val.coloring = <<>>

\* greedy_graph_coloring has colored a triangle whose first inserted city is
\* the largest id
C13_Witness ==
    /\ IsColoring
    /\ IsTriangle
    /\ graph[1][1] = 2
    /\ ret.val.chromatic_number = 3

\* ---------------------------------------------------------------- C14
\* C14: analyze_node_failure(node) leaves the Graph exactly as it was before
\* the call: adjacency lists, disabled set and vulnerable-edge set are those
\* of the moment of the call, also when the node was already disabled.
C14_NodeFailureRestores ==
    ret.op = "analyze_node_failure" => Snapshot = ret.before

\* ---------------------------------------------------------------- C20
\* C20: analyze_edge_failure(city1, city2) leaves the vulnerable-edge set, the
\* disabled set and the adjacency lists as they were before the call, also
\* when the road was already marked vulnerable.
C20_EdgeFailureRestores ==
    ret.op = "analyze_edge_failure" => Snapshot = ret.before

\* ---------------------------------------------------------------- C15
IsCascade == ret.op = "simulate_cascade_failure"

\* C15: the total_failed set returned by simulate_cascade_failure contains
\* every seed, and the total_failed_so_far sets of the recorded phases only
\* grow: each contains the seeds and the set of the phase before it, and the
\* returned total_failed contains the last of them.
C15_CascadeGrows ==
    IsCascade =>
        LET phases == ret.val.phases
        IN  /\ ret.seeds \subseteq ret.val.total_failed
            /\ \A i \in 1..Len(phases) :
                  /\ ret.seeds \subseteq phases[i].total_failed_so_far
                  /\ phases[i].total_failed_so_far \subseteq ret.val.total_failed
                  /\ i > 1 => phases[i - 1].total_failed_so_far
                                 \subseteq phases[i].total_failed_so_far

\* a cascade from one seed that recorded a phase in which another city failed
C15_Witness ==
    /\ IsCascade
    /\ Cardinality(ret.seeds) = 1
    /\ Len(ret.val.phases) > 0
    /\ ret.val.total_failed /= ret.seeds

\* ---------------------------------------------------------------- C16
\* C16: simulate_cascade_failure returns, and the number of rounds it has
\* evaluated when it returns is at most the round ceiling of 10.
C16_CascadeRounds ==
    IsCascade => ret.val.rounds <= RoundCeiling

\* a cascade from a seed, on a network of at least two roads, that recorded a
\* phase and then evaluated the round that found no new failure
C16_Witness ==
    /\ IsCascade
    /\ ret.seeds /= {}
    /\ NumRoads(graph) >= 2
    /\ Len(ret.val.phases) = 1
    /\ ret.val.rounds = 2

\* ---------------------------------------------------------------- C17
IsToggle == ret.op = "disable_enable"
ActiveNow(n) ==
    get_active_neighbors(graph, vulnerable_edges, disabled_nodes, n)
ActiveBefore(n) ==
    get_active_neighbors(ret.before.graph, ret.before.vulnerable_edges,
                         ret.before.disabled_nodes, n)
ActiveBetween(n) ==
    get_active_neighbors(ret.before.graph, ret.before.vulnerable_edges,
                         ret.between, n)

\* C17 as stated: for every graph state and every node x, disable(x) followed
\* by enable(x) leaves active_neighbors(n) equal to its value before the
\* disable call, for every node n of the graph.
C17_ToggleRestores ==
    IsToggle => \A n \in Cities(graph) : ActiveNow(n) = ActiveBefore(n)

\* C17 as amended: for every graph state and every node x that is not disabled
\* when disable(x) is called, disable(x) followed by enable(x) leaves
\* active_neighbors(n) equal to its value before the disable call, for every
\* node n of the graph.
C17_ToggleRestoresEnabled ==
    (IsToggle /\ ret.city \notin ret.before.disabled_nodes)
        => \A n \in Cities(graph) : ActiveNow(n) = ActiveBefore(n)

\* x was enabled, disabling it took it out of a neighbour's active list, and
\* another city stayed disabled throughout
C17_Witness ==
    /\ IsToggle
    /\ ret.city \notin ret.before.disabled_nodes
    /\ ret.before.disabled_nodes /= {}
    /\ \E n \in Cities(graph) \ {ret.city} : ActiveBetween(n) /= ActiveBefore(n)

\* ---------------------------------------------------------------- C18
\* how many entries of an adjacency list equal e
Count(list, e) == Cardinality({i \in 1..Len(list) : list[i] = e})

\* C18: after any sequence of add_city, add_road, remove_city and remove_road
\* calls, b appears with weight w in a's adjacency list exactly as many times
\* as a appears with weight w in b's list, and every neighbour named in a list
\* is a city of the graph.
C18_Symmetric ==
    \A a \in Cities(graph) :
        \A i \in 1..Len(Adj(graph, a)) :
            LET b == Adj(graph, a)[i][1]
                w == Adj(graph, a)[i][2]
            IN  /\ b \in Cities(graph)
                /\ Count(Adj(graph, a), <<b, w>>)
                     = Count(GraphGet(graph, b), <<a, w>>)

\* three cities, two of them joined by two roads of the same weight and one of
\* these joined to the third
C18_Witness ==
    /\ Cardinality(Cities(graph)) = 3
    /\ \E a, b, c \in Cities(graph), w \in Weights :
          /\ a /= b /\ b /= c /\ a /= c
          /\ Count(Adj(graph, a), <<b, w>>) = 2
          /\ Count(Adj(graph, b), <<c, MaxWeight>>) = 1

\* ---------------------------------------------------------------- C19
IsAllEdges == ret.op = "get_all_edges"

\* how many reported edges join u and v with weight w
Reported(edges, u, v, w) ==
    Cardinality({i \in 1..Len(edges) :
                    /\ {edges[i][1], edges[i][2]} = {u, v}
                    /\ edges[i][3] = w})

\* C19: get_all_edges() never reports (u, v, _) together with (v, u, _) for
\* distinct u and v, and it reports every stored road between distinct cities:
\* as many edges joining u and v with weight w as u's adjacency list holds
\* entries (v, w), parallel roads included.
C19_AllEdges ==
    IsAllEdges =>
        LET edges == ret.val
        IN  /\ \A i, j \in 1..Len(edges) :
                  edges[i][1] /= edges[i][2]
                      => ~(edges[j][1] = edges[i][2] /\ edges[j][2] = edges[i][1])
            /\ \A u, v \in Cities(graph) :
                  \A n \in 1..Len(Adj(graph, u)) :
                      LET w == Adj(graph, u)[n][2]
                      IN  u /= v => Reported(edges, u, v, w)
                                       = Count(Adj(graph, u), <<v, w>>)

\* two parallel roads between distinct cities and a road to a third city, all
\* reported
C19_Witness ==
    /\ IsAllEdges
    /\ Len(ret.val) = 3
    /\ Cardinality(Cities(graph)) = 3
    /\ \E u, v \in Cities(graph) :
          u /= v /\ Count(Adj(graph, u), <<v, 1>>) = 2

\* ---------------------------------------------------------------- C21
\* the cities on a path
OnPath(path) == {path[i] : i \in 1..Len(path)}

\* C21: for start and end in the graph (a disabled start, a disabled end and
\* start = end included), the path dijkstra_shortest_path returns contains no
\* disabled node.
C21_DijkstraAvoidsDisabled ==
    (IsDijkstra /\ InGraph(ret.start) /\ InGraph(ret.end)) =>
        OnPath(ret.val.path) \cap disabled_nodes = {}

\* ---------------------------------------------------------------- C22
\* C22: no path returned by find_k_disjoint_paths passes through a disabled
\* node.
C22_DisjointAvoidDisabled ==
    IsFindK =>
        \A i \in 1..Len(ret.val) : OnPath(ret.val[i]) \cap disabled_nodes = {}

\* ---------------------------------------------------------------- C23
\* a path from start to end that visits no city twice and moves only along
\* stored roads that are not marked vulnerable
SoundPath(path, start, end) ==
    /\ Len(path) > 0
    /\ path[1] = start
    /\ path[Len(path)] = end
    /\ \A i, j \in 1..Len(path) : i /= j => path[i] /= path[j]
    /\ \A i \in 1..(Len(path) - 1) : UsableRoad(path[i], path[i + 1])

\* C23: every path find_k_disjoint_paths returns starts at start, ends at end,
\* visits no node twice and moves only along stored roads that are not marked
\* vulnerable, and the call leaves the adjacency lists, the disabled set and
\* the vulnerable set unchanged.
C23_SoundPaths ==
    [][(ret.op = "none" /\ ret'.op = "find_k_disjoint_paths") =>
          /\ \A i \in 1..Len(ret'.val) :
                SoundPath(ret'.val[i], ret'.start, ret'.end)
          /\ UNCHANGED graphVars]_vars

\* two paths returned on a network with a road marked vulnerable, the second
\* through three cities
C23_Witness ==
    /\ IsFindK
    /\ \E u, v \in Cities(graph) :
          /\ u /= v /\ <<u, v>> \in vulnerable_edges
          /\ \E j \in 1..Len(Adj(graph, u)) : Adj(graph, u)[j][1] = v
    /\ Len(ret.val) = 2
    /\ Len(ret.val[2]) = 3

\* ---------------------------------------------------------------- C24
\* the cities that must fail in a round entered with the set failed: cities
\* of the graph, not failed and not disabled, with at least one other
\* non-failed city, that reach by active routes fewer than 30% of the other
\* non-failed cities
MustFail(failed) ==
    {node \in Cities(graph) \ (failed \cup disabled_nodes) :
        LET others == (Cities(graph) \ failed) \ {node}
            reached == others \cap ActiveReach({node})
        IN  /\ others /= {}
            /\ 10 * Cardinality(reached) < 3 * Cardinality(others)}

\* the set failed with which round i of a cascade is entered
FailedBefore(i) ==
    IF i = 1 THEN ret.seeds ELSE ret.val.phases[i - 1].total_failed_so_far

\* C24: in every round of simulate_cascade_failure the newly failed nodes are
\* exactly the cities that are not yet failed, not disabled, have another
\* non-failed city and reach fewer than 30% of the other non-failed cities,
\* all judged against the failed set of the round's start; the failures are
\* added together after the round, and the round that ends the simulation
\* finds no such city.
C24_RoundCriterion ==
    IsCascade =>
        LET phases == ret.val.phases
        IN  /\ \A i \in 1..Len(phases) :
                  /\ phases[i].phase = i
                  /\ phases[i].newly_failed = MustFail(FailedBefore(i))
                  /\ phases[i].total_failed_so_far
                       = FailedBefore(i) \cup phases[i].newly_failed
            /\ ret.val.total_failed = FailedBefore(Len(phases) + 1)
            /\ ret.val.rounds <= RoundCeiling => MustFail(ret.val.total_failed) = {}

\* a round from a seed in which one city failed and another, judged in the
\* same round, did not
C24_Witness ==
    /\ IsCascade
    /\ ret.seeds /= {}
    /\ Len(ret.val.phases) = 1
    /\ ret.val.phases[1].newly_failed /= {}
    /\ Cities(graph) \ (ret.val.total_failed \cup disabled_nodes) /= {}

\* ---------------------------------------------------------------- C25
IsBfs == ret.op = "bfs_shortest_path"

\* least number of active steps from the cities of S, n steps away from the
\* start, to end; Inf when no active route leads there
RECURSIVE LeastHops(_, _, _)
LeastHops(S, n, end) ==
    IF end \in S THEN n
    ELSE LET T == S \cup {v \in Cities(graph) : \E u \in S : Adjacent(u, v)}
         IN  IF T = S THEN Inf ELSE LeastHops(T, n + 1, end)

\* C25: bfs_shortest_path returns (None, inf) exactly when no active route
\* leads from start to end; otherwise it returns a path from start to end over
\* active neighbours whose hop count len(path) - 1 is the least over all
\* active routes; and for start and end in the graph it finds a path exactly
\* when dijkstra_shortest_path does.
C25_BfsFewestHops ==
    IsBfs =>
        LET path == ret.val.path
            least == LeastHops({ret.start}, 0, ret.end)
        IN  /\ ret.val.exc = "none"
            /\ (path = NonePath) <=> (least = Inf)
            /\ ret.val.distance = least
            /\ path /= NonePath =>
                 /\ path[1] = ret.start
                 /\ path[Len(path)] = ret.end
                 /\ Len(path) - 1 = least
                 /\ \A i \in 1..(Len(path) - 1) : Adjacent(path[i], path[i + 1])
            /\ (InGraph(ret.start) /\ InGraph(ret.end)) =>
                 ((path = NonePath) <=>
                    (dijkstra_shortest_path(graph, vulnerable_edges,
                         disabled_nodes, ret.start, ret.end,
                         set_order(Cities(graph))).path = NonePath))

\* a one-hop path where the lightest route, the one dijkstra_shortest_path
\* returns, goes another way
C25_Witness ==
    /\ IsBfs
    /\ ret.val.distance = 1
    /\ dijkstra_shortest_path(graph, vulnerable_edges, disabled_nodes,
                              ret.start, ret.end,
                              set_order(Cities(graph))).path /= ret.val.path

\* ---------------------------------------------------------------- C26
\* the active degree of a city: the other cities an active road joins it to
ActiveDegree(u) == Cardinality({v \in Cities(graph) \ {u} : Adjacent(u, v)})
MaxActiveDegree ==
    IF Cities(graph) = {} THEN 0
    ELSE LET u == CHOOSE c \in Cities(graph) :
                     \A d \in Cities(graph) : ActiveDegree(d) <= ActiveDegree(c)
         IN  ActiveDegree(u)

\* C26: the number of colors greedy_graph_coloring uses is at most the
\* maximum active degree over all nodes, plus one.
C26_ColorBound ==
    IsColoring => ret.val.chromatic_number <= MaxActiveDegree + 1

\* the bound is met on a network where a disabled city or a vulnerable road
\* has lowered a degree
C26_Witness ==
    /\ IsColoring
    /\ disabled_nodes \cup vulnerable_edges /= {}
    /\ MaxActiveDegree >= 1
    /\ ret.val.chromatic_number = MaxActiveDegree + 1
    /\ \E u, v \in Cities(graph) :
          /\ u /= v /\ ~Adjacent(u, v)
          /\ \E j \in 1..Len(Adj(graph, u)) : Adj(graph, u)[j][1] = v

\* ---------------------------------------------------------------- C27
\* a key sequence without the key v
Without(keys, v) == LET NotV(x) == x /= v IN SelectSeq(keys, NotV)

\* C27: for BinarySearchTree and AVLTree, delete(v) returns True exactly when
\* v was stored; then the in-order key sequence is the previous one with v
\* removed and size has decreased by exactly 1; when v was absent it returns
\* False and leaves keys and size unchanged.
C27_DeleteRemoves ==
    [][(ret.op = "none" /\ ret'.op = "delete") =>
          LET stored == \E i \in 1..Len(inorder_traversal(tree)) :
                            inorder_traversal(tree)[i] = ret'.arg
          IN  /\ ret'.val = stored
              /\ inorder_traversal(tree')
                   = Without(inorder_traversal(tree), ret'.arg)
              /\ stored => /\ tree'.size = tree.size - 1
                           /\ Len(inorder_traversal(tree'))
                                = Len(inorder_traversal(tree)) - 1
              /\ ~stored => /\ tree'.size = tree.size
                            /\ inorder_traversal(tree')
                                 = inorder_traversal(tree)]_vars

\* a successful delete from a BinarySearchTree that took the key between a
\* smaller and a larger one still stored, the root keeping two children
C27_Witness ==
    /\ ret.op = "delete" /\ ret.val = TRUE
    /\ tree.kind = "BST"
    /\ tree.root /= Nil
    /\ Left(tree.root) /= Nil /\ Right(tree.root) /= Nil
    /\ \E a, b \in KeysOf(tree.root) : a < ret.arg /\ ret.arg < b

\* ---------------------------------------------------------------- C28
\* C28: duplicates are not inserted, so after any sequence of insert and
\* delete calls size equals the number of keys inorder_traversal() returns.
C28_SizeCountsKeys ==
    tree.size = Len(inorder_traversal(tree))

\* ---------------------------------------------------------------- C29
\* C29: after any sequence of add_city, remove_city, add_road, remove_road,
\* mark_vulnerable_road, disable_city and enable_city calls, every pair in
\* vulnerable_edges is stored in both directions and has both endpoints among
\* the cities of the graph.
C29_VulnerableSound ==
    \A e \in vulnerable_edges :
        /\ <<e[2], e[1]>> \in vulnerable_edges
        /\ e[1] \in Cities(graph) /\ e[2] \in Cities(graph)

\* ---------------------------------------------------------------- C30
\* C30: simulate_cascade_failure records at most one phase: every node that
\* fails beyond the seeds fails in the first round, and a second round finds
\* no new failure.
C30_OnePhase ==
    IsCascade =>
        /\ Len(ret.val.phases) <= 1
        /\ ret.val.rounds <= 2
        /\ ret.val.total_failed \ ret.seeds
             = UNION {ret.val.phases[i].newly_failed :
                        i \in {1} \cap DOMAIN ret.val.phases}

\* a seed inside the graph, on a network where a road is marked vulnerable and
\* a city is disabled: a first round with failures, a second without
C30_Witness ==
    /\ IsCascade
    /\ ret.seeds \cap Cities(graph) /= {}
    /\ disabled_nodes /= {}
    /\ \E u, v \in Cities(graph) :
          /\ u /= v /\ <<u, v>> \in vulnerable_edges
          /\ \E j \in 1..Len(Adj(graph, u)) : Adj(graph, u)[j][1] = v
    /\ Len(ret.val.phases) = 1
    /\ ret.val.rounds = 2
    /\ NumRoads(graph) >= 3

====
